---- MODULE Spec2Model ----
(***************************************************************************)
(* Model of the user-match composite service: the orchestration functions  *)
(* of services/user_match_service.py and the HTTP resource layer of        *)
(* resources/user_match.py, over the two upstream services (pools,         *)
(* matches), which are the environment.                                    *)
(*                                                                         *)
(* An upstream answer is a record [status, body]; status NoResponse means  *)
(* that requests raised a transport error (connection refused, timeout)    *)
(* and the exception carries no response.                                  *)
(***************************************************************************)
EXTENDS Integers, Sequences, FiniteSets, TLC

\* ------------------------------------------------------------------ bounds
NumUsers == 3
NumMatchIds == 2
NumPools == 2
MaxMemberships == 2
MaxMatchesBound == 2

\* ---------------------------------------------------------------- universe
Users == 1..NumUsers
MatchIds == 1..NumMatchIds
PoolIds == 1..NumPools
Decisions == {"accept", "reject", "maybe"}

\* Python's None (a JSON null, a missing dict key read with .get()).
None == 0
\* An upstream call that raised without a response (e.response is None).
NoResponse == 0
UpstreamStatuses == {200, 201, 400, 403, 404, 500}

\* --------------------------------------------------- the requests library
\* Response.raise_for_status(): HTTPError for a 4xx or 5xx status.
RaisesHTTPError(status) == status >= 400 /\ status < 600

\* A call raises requests.RequestException: no response, or raise_for_status.
RaisesRequestException(resp) ==
    resp.status = NoResponse \/ RaisesHTTPError(resp.status)

\* The truth value of e.response in "hasattr(e, 'response') and e.response":
\* None is falsy, and a requests.Response is truthy exactly when it is ok,
\* i.e. its status is below 400 (Response.__bool__ returns self.ok).
ResponseBool(resp) ==
    resp.status # NoResponse /\ ~RaisesHTTPError(resp.status)

\* ---------------------------------------------------------------- outcomes
Return(v) == [exc |-> "none", value |-> <<v>>]
Raise(e) == [exc |-> e, value |-> <<>>]

VARIABLES
    op,         \* the resource function of the last request
    user,       \* its user_id
    calls,      \* the upstream calls it issued, in order
    answers,    \* the upstream answers it received, in order
    exc,        \* the exception the service function raised, or "none"
    ret,        \* <<value>> the service function returned, or <<>>
    http,       \* the status the client receives
    reply,      \* <<body>> the client receives on success, or <<>>
    \* generate_matches_for_user_service: its parameters and locals
    gpc,                \* "idle", "listing", "creating" or "done"
    max_matches,
    pool_id,
    pool_members,       \* the member listing received
    selected_members,   \* random.sample's result, as positions of pool_members
    futures,            \* per selected member: the state of its create_match task
    created_matches,    \* the results collected, in completion order
    invocation,         \* 1, or 2 when the client has repeated the request
    \* the upstream services' state
    roster,             \* pools service: the members of the user's pool
    home_pool,          \* pools service: the pool the users are members of
    matchDB,            \* matches service: the matches that exist
    \* add_user_to_pool_service: per request in progress, its parameters,
    \* locals, calls and answers
    add,
    poolsDB             \* pools service: per pool id, location and member count

reqVars == <<op, user, calls, answers, exc, ret, http, reply>>
genVars == <<gpc, max_matches, pool_id, pool_members, selected_members,
             futures, created_matches, invocation>>
upVars == <<roster, home_pool, matchDB>>
addVars == <<add, poolsDB>>
vars == <<reqVars, genVars, upVars, addVars>>

Call(method, path, arg) == [method |-> method, path |-> path, arg |-> arg]
Answer(status, body) == [status |-> status, body |-> body]
AnswerStatuses == UpstreamStatuses \cup {NoResponse}

\* One request, handled start to end by a sequential resource function.
Handled(u, issued, received, out, status, body) ==
    /\ op = "none"
    /\ UNCHANGED <<genVars, upVars, addVars>>
    /\ user' = u
    /\ calls' = issued
    /\ answers' = received
    /\ exc' = out.exc
    /\ ret' = out.value
    /\ http' = status
    /\ reply' = IF out.exc = "none" THEN <<body>> ELSE <<>>

\* ---------------------------------------- submit_decision_for_user_match
submit_decision_for_user_match(resp) ==
    IF ~RaisesRequestException(resp)
    THEN Return(resp.body)
    ELSE IF ResponseBool(resp) /\ resp.status = 400 THEN Raise("ValueError")
    ELSE IF ResponseBool(resp) /\ resp.status = 403 THEN Raise("PermissionError")
    ELSE IF ResponseBool(resp) /\ resp.status = 404 THEN Raise("ValueError")
    ELSE Raise("RuntimeError")

submit_user_match_decision_status(out) ==
    CASE out.exc = "none" -> 201
      [] out.exc = "PermissionError" -> 403
      [] out.exc = "ValueError" -> 400
      [] out.exc = "RuntimeError" -> 502
      [] OTHER -> 500

SubmitDecision ==
    \E u \in Users, m \in MatchIds, d \in Decisions, st \in AnswerStatuses :
        LET payload == [match_id |-> m, user_id |-> u, decision |-> d]
            resp == Answer(st, payload)
            out == submit_decision_for_user_match(resp)
        IN /\ op' = "submit_user_match_decision"
           /\ Handled(u,
                   <<Call("POST", "/matches/{match_id}/decisions", payload)>>,
                   <<resp>>, out, submit_user_match_decision_status(out),
                   IF out.exc = "none" THEN out.value[1] ELSE <<>>)

\* ----------------------------------------- get_user_matches_from_service
MatchLists == UNION {[1..n -> MatchIds] : n \in 0..NumMatchIds}

get_user_matches_from_service(resp) ==
    IF ~RaisesRequestException(resp)
    THEN Return(resp.body)
    ELSE IF ResponseBool(resp) /\ resp.status = 404 THEN Return(<<>>)
    ELSE Raise("RuntimeError")

get_user_matches_status(out) ==
    CASE out.exc = "none" -> 200
      [] out.exc = "RuntimeError" -> 502
      [] OTHER -> 500

ListUserMatches ==
    \E u \in Users, st \in AnswerStatuses, ms \in MatchLists :
        /\ RaisesRequestException(Answer(st, ms)) => ms = <<>>
        /\ LET resp == Answer(st, ms)
               out == get_user_matches_from_service(resp)
           IN /\ op' = "get_user_matches"
              /\ Handled(u,
                      <<Call("GET", "/matches/?user_id=", u)>>,
                      <<resp>>, out, get_user_matches_status(out),
                      IF out.exc = "none"
                      THEN [user_id |-> u,
                            matches_count |-> Len(out.value[1]),
                            matches |-> out.value[1]]
                      ELSE <<>>)

\* ----------------------------------------- delete_user_from_pool_service
delete_user_from_pool_service(resp) ==
    IF ~RaisesRequestException(resp)
    THEN Return(resp.body)
    ELSE IF ResponseBool(resp) /\ resp.status = 404 THEN Raise("ValueError")
    ELSE Raise("RuntimeError")

remove_user_from_pool_status(out) ==
    CASE out.exc = "none" -> 200
      [] out.exc = "ValueError" -> 404
      [] out.exc = "RuntimeError" -> 502
      [] OTHER -> 500

RemoveUserFromPool ==
    \E u \in Users, st \in AnswerStatuses, p \in PoolIds :
        LET resp == Answer(st, [user_id |-> u, pool_id |-> p])
            out == delete_user_from_pool_service(resp)
        IN /\ op' = "remove_user_from_pool"
           /\ Handled(u,
                   <<Call("DELETE", "/pools/members/{user_id}", u)>>,
                   <<resp>>, out, remove_user_from_pool_status(out),
                   IF out.exc = "none" THEN out.value[1] ELSE <<>>)

\* --------------------------------------- get_user_decisions_from_service
\* What GET /matches/?user_id= can list here: matches with their match_id,
\* or without one (match.get("match_id") is None).
MatchEntries == UNION {[1..n -> {[match_id |-> m] : m \in MatchIds \cup {None}}] :
                       n \in 0..NumMatchIds}
\* How the matches service can answer a decision fetch.
DecisionFetchStatuses == {200, 201, 404, 500, NoResponse}
Decision(m, u) == [match_id |-> m, user_id |-> u, decision |-> "accept"]

decision_appended_any_2xx(resp) == ~RaisesRequestException(resp)
\* Lines 323-333: the decision is appended when the fetch raised nothing
\* and its status is 200; there is no raise_for_status here.
decision_appended(resp) == resp.status # NoResponse /\ resp.status = 200

\* The loop of lines 320-333 over matches[i..], fetched[i] being the answer
\* to the fetch for matches[i].
RECURSIVE all_decisions(_, _, _)
all_decisions(matches, fetched, i) ==
    IF i > Len(matches) THEN <<>>
    ELSE (IF matches[i].match_id # None /\ decision_appended(fetched[i])
          THEN <<fetched[i].body>> ELSE <<>>)
         \o all_decisions(matches, fetched, i + 1)

RECURSIVE decision_calls(_, _, _)
decision_calls(matches, u, i) ==
    IF i > Len(matches) THEN <<>>
    ELSE (IF matches[i].match_id # None
          THEN <<Call("GET", "/matches/{match_id}/decisions/{user_id}",
                      [match_id |-> matches[i].match_id, user_id |-> u])>>
          ELSE <<>>)
         \o decision_calls(matches, u, i + 1)

RECURSIVE decision_answers(_, _, _)
decision_answers(matches, fetched, i) ==
    IF i > Len(matches) THEN <<>>
    ELSE (IF matches[i].match_id # None THEN <<fetched[i]>> ELSE <<>>)
         \o decision_answers(matches, fetched, i + 1)

get_user_decisions_from_service(resp, fetched) ==
    IF ~RaisesRequestException(resp)
    THEN Return(all_decisions(resp.body, fetched, 1))
    ELSE IF ResponseBool(resp) /\ resp.status = 404 THEN Return(<<>>)
    ELSE Raise("RuntimeError")

get_user_decisions_status(out) ==
    CASE out.exc = "none" -> 200
      [] out.exc = "RuntimeError" -> 502
      [] OTHER -> 500

ListUserDecisions ==
    op = "none" /\ \E u \in Users, st \in AnswerStatuses, ms \in MatchEntries :
        \E sts \in [1..Len(ms) -> DecisionFetchStatuses] :
            LET resp == Answer(st, ms)
                fetched == [i \in 1..Len(ms) |->
                              Answer(sts[i], IF sts[i] \in {200, 201}
                                             THEN Decision(ms[i].match_id, u)
                                             ELSE <<>>)]
                out == get_user_decisions_from_service(resp, fetched)
            IN /\ RaisesRequestException(resp) => ms = <<>>
               /\ \A i \in 1..Len(ms) : ms[i].match_id = None => sts[i] = NoResponse
               /\ op' = "get_user_decisions"
               /\ Handled(u,
                       <<Call("GET", "/matches/?user_id=", u)>>
                           \o (IF RaisesRequestException(resp) THEN <<>>
                               ELSE decision_calls(ms, u, 1)),
                       <<resp>> \o (IF RaisesRequestException(resp) THEN <<>>
                                    ELSE decision_answers(ms, fetched, 1)),
                       out, get_user_decisions_status(out),
                       IF out.exc = "none"
                       THEN [user_id |-> u,
                             decisions_count |-> Len(out.value[1]),
                             decisions |-> out.value[1]]
                       ELSE <<>>)

\* -------------------------------------------- get_user_pool_from_service
JoinedAts == {"t1", "t2"}
Locations == {"NYC"}

Membership(p, u, t) == [pool_id |-> p, user_id |-> u, joined_at |-> t]
\* What GET /pools/members?user_id=u can list: memberships of u.
MembershipLists(u) ==
    UNION {[1..n -> {Membership(p, u, t) : p \in PoolIds, t \in JoinedAts}] :
           n \in 0..MaxMemberships}

\* What GET /pools/{pool_id} answers with: the pool of that id.
PoolRecord(p, loc, n) ==
    [id |-> p, name |-> <<"Pool for", loc>>, location |-> loc, member_count |-> n]

user_member_last(members) == members[Len(members)]
\* user_member = members[0]
user_member(members) == members[1]

\* The membership lookup raised, or listed nothing: no pool is fetched.
NoPoolFetch(members_resp) ==
    RaisesRequestException(members_resp) \/ members_resp.body = <<>>

\* The pool_id whose details the function fetches (line 39).
fetched_pool_id(members_resp) == user_member(members_resp.body).pool_id

get_user_pool_calls(user_id, members_resp) ==
    <<Call("GET", "/pools/members?user_id=", user_id)>>
    \o (IF NoPoolFetch(members_resp) THEN <<>>
        ELSE <<Call("GET", "/pools/{pool_id}", fetched_pool_id(members_resp))>>)

get_user_pool_unchecked(members_resp, pool_resp) ==
    IF RaisesRequestException(members_resp) THEN Raise("RuntimeError")
    ELSE IF members_resp.body = <<>> THEN Raise("IndexError")
    ELSE Raise("RuntimeError")
get_user_pool_from_service(members_resp, pool_resp) ==
    IF RaisesRequestException(members_resp) THEN Raise("RuntimeError")
    ELSE IF members_resp.body = <<>> THEN Raise("ValueError")
    ELSE IF RaisesRequestException(pool_resp) THEN Raise("RuntimeError")
    ELSE Return([pool_id |-> pool_resp.body.id,
                 pool_name |-> pool_resp.body.name,
                 location |-> pool_resp.body.location,
                 member_count |-> pool_resp.body.member_count,
                 joined_at |-> user_member(members_resp.body).joined_at,
                 user_id |-> user_member(members_resp.body).user_id])

FailureStatuses == {st \in AnswerStatuses : RaisesRequestException(Answer(st, <<>>))}
SuccessStatuses == AnswerStatuses \ FailureStatuses

\* The answers the pools service can give to the two calls of the lookup,
\* "lists" being the non-empty membership listings it may hold: the first
\* call fails or lists nothing (and no pool is fetched), or the pool
\* fetch fails, or it is answered with the pool that was asked for.
LookupAnswers(lists) ==
    {<<Answer(st, <<>>), Answer(NoResponse, <<>>)>> : st \in AnswerStatuses}
    \cup {<<Answer(st[1], ms), Answer(st[2], <<>>)>> :
             st \in SuccessStatuses \X FailureStatuses, ms \in lists}
    \cup UNION {{<<Answer(st[1], ms),
                   Answer(st[2], PoolRecord(fetched_pool_id(Answer(st[1], ms)), loc, n))>> :
                     st \in SuccessStatuses \X SuccessStatuses, ms \in lists} :
                 loc \in Locations, n \in 0..1}

PoolLookupAnswers(u) == LookupAnswers(MembershipLists(u) \ {<<>>})

PoolLookupReceived(mr, pr) == IF NoPoolFetch(mr) THEN <<mr>> ELSE <<mr, pr>>

get_user_pool_status(out) ==
    CASE out.exc = "none" -> 200
      [] out.exc = "ValueError" -> 404
      [] out.exc = "RuntimeError" -> 502
      [] OTHER -> 500

GetUserPool ==
    op = "none" /\ \E u \in Users : \E a \in PoolLookupAnswers(u) :
        LET out == get_user_pool_from_service(a[1], a[2])
        IN /\ op' = "get_user_pool"
           /\ Handled(u, get_user_pool_calls(u, a[1]),
                   PoolLookupReceived(a[1], a[2]), out,
                   get_user_pool_status(out),
                   IF out.exc = "none" THEN out.value[1] ELSE <<>>)

\* ------------------------------------------------------------------- spec
\* The requests add_user_to_pool can be serving at once (it is a plain def,
\* which FastAPI runs on a worker thread per request).
Requests == {"r1", "r2"}

NoAdd ==
    [pc |-> "idle", user_id |-> None, location |-> "", pools |-> <<>>,
     pool |-> <<>>, calls |-> <<>>, answers |-> <<>>,
     exc |-> "none", ret |-> <<>>, http |-> 0]

\* The worker has answered and is free for the next request: nothing of a
\* request outlives it (the functions keep locals only, no module state).
Idle ==
    /\ op = "none"
    /\ user = None
    /\ calls = <<>>
    /\ answers = <<>>
    /\ exc = "none"
    /\ ret = <<>>
    /\ http = 0
    /\ reply = <<>>
    /\ gpc = "idle"
    /\ max_matches = 0
    /\ pool_id = None
    /\ pool_members = <<>>
    /\ selected_members = <<>>
    /\ futures = <<>>
    /\ created_matches = <<>>
    /\ invocation = 1
    /\ matchDB = {}
    /\ add = [r \in Requests |-> NoAdd]

RequestEnds ==
    /\ op # "none"
    /\ http # 0
    /\ op' = "none"
    /\ user' = None
    /\ calls' = <<>>
    /\ answers' = <<>>
    /\ exc' = "none"
    /\ ret' = <<>>
    /\ http' = 0
    /\ reply' = <<>>
    /\ UNCHANGED <<genVars, upVars, addVars>>

\* The sequential operations do not read the pools' state.
Init ==
    /\ Idle
    /\ roster = <<>>
    /\ home_pool = None
    /\ poolsDB = <<>>

Next ==
    \/ SubmitDecision
    \/ ListUserMatches
    \/ RemoveUserFromPool
    \/ GetUserPool
    \/ ListUserDecisions
    \/ RequestEnds

Spec == Init /\ [][Next]_vars

\* ------------------------------------ generate_matches_for_user_service
\* The ThreadPoolExecutor's worker limit.
max_workers == 5

\* str(user_id): the string a UUID is sent and compared as.
Str(id) == <<"str", id>>
Member(u) == [user_id |-> Str(u)]

Min(a, b) == IF a <= b THEN a ELSE b
Range(f) == {f[i] : i \in DOMAIN f}
Injective(f) == \A i, j \in DOMAIN f : i # j => f[i] # f[j]

\* What GET /pools/{pool_id}/members can list: each user at most once and
\* in key order, as (pool_id, user_id) is the primary key of pool_members.
Rosters ==
    {[i \in DOMAIN f |-> Member(f[i])] :
        f \in {g \in UNION {[1..n -> Users] : n \in 0..NumUsers} :
                  \A i, j \in DOMAIN g : i < j => g[i] < g[j]}}

other_members_unfiltered(members, user_id) == [i \in 1..Len(members) |-> i]
\* other_members (lines 195-197), as the positions of pool_members kept.
other_members(members, user_id) ==
    SelectSeq([i \in 1..Len(members) |-> i],
              LAMBDA i : members[i].user_id # Str(user_id))

sample_size_all(max, n) == n
\* min(max_matches, len(other_members)) (line 209)
sample_size(max, n) == Min(max, n)

\* random.sample(population, k): k distinct elements, in any order.
random_sample(population, k) ==
    {sel \in [1..k -> Range(population)] : Injective(sel)}

\* The JSON body of the match-creation call for one selected member.
create_match_payload(p, user_id, member) ==
    [pool_id |-> Str(p), user1_id |-> Str(user_id), user2_id |-> member.user_id]

\* A task that returned None (and any falsy result: "if match:").
NoMatch == <<>>

create_match_raises(resp) ==
    IF RaisesRequestException(resp) THEN Raise("RequestException")
    ELSE Return(resp.body)
\* create_match (lines 215-232): a failed call is logged and becomes None.
create_match(resp) ==
    IF RaisesRequestException(resp) THEN Return(NoMatch)
    ELSE Return(resp.body)

Pending == [state |-> "pending", out |-> Return(NoMatch)]
Running == [state |-> "running", out |-> Return(NoMatch)]
Done(out) == [state |-> "done", out |-> out]

collect_last(collected, out) ==
    IF out.exc = "none" /\ out.value[1] # NoMatch
    THEN <<out.value[1]>>
    ELSE collected
\* lines 238-240: "if match: created_matches.append(match)"
collect(collected, out) ==
    IF out.exc = "none" /\ out.value[1] # NoMatch
    THEN Append(collected, out.value[1])
    ELSE collected

\* The matches service: a match record it answers a creation with, and the
\* key of its uniqueness constraint on (pool_id, user pair).
MatchRecord(payload, shape) ==
    [pool_id |-> payload.pool_id, user1_id |-> payload.user1_id,
     user2_id |-> payload.user2_id, shape |-> shape]
MatchShapes == {"match", "malformed"}
PairKey(payload) == <<payload.pool_id, {payload.user1_id, payload.user2_id}>>

\* MatchGet(**match): whether the record validates as the canonical Match.
MatchGetValidates(match) == match.shape = "match"

IsValueError(e) == e \in {"ValueError", "ValidationError"}

\* lines 248-261, and the except clauses of lines 263-266.
generate_matches_result(p, u, tasks, collected) ==
    IF \E i \in DOMAIN tasks : tasks[i].out.exc # "none"
    THEN Raise("RuntimeError")
    ELSE IF \E i \in DOMAIN collected : ~MatchGetValidates(collected[i])
    THEN Raise("ValidationError")
    ELSE Return([message |-> <<"Generated", Len(collected), "matches for user", u>>,
                 pool_id |-> p,
                 matches_created |-> Len(collected),
                 matches |-> collected])

generate_matches_for_user_status(out) ==
    CASE out.exc = "none" -> 201
      [] IsValueError(out.exc) -> 404
      [] out.exc = "RuntimeError" -> 502
      [] OTHER -> 500

GenFinished(out) ==
    /\ gpc' = "done"
    /\ exc' = out.exc
    /\ ret' = out.value
    /\ http' = generate_matches_for_user_status(out)
    /\ reply' = out.value

GenContinues ==
    /\ exc' = "none"
    /\ ret' = <<>>
    /\ http' = 0
    /\ reply' = <<>>

\* Lines 177-190: the pool lookup, and on success the member listing call.
\* The user has at most one membership, in home_pool.
GenBegin(u, mm) ==
    \E a \in LookupAnswers({<<Membership(home_pool, u, t)>> : t \in JoinedAts}) :
        /\ LET out == get_user_pool_from_service(a[1], a[2])
           IN /\ op' = "generate_matches_for_user"
              /\ user' = u
              /\ max_matches' = mm
              \* of the answers, the invocation keeps the membership lookup's
              /\ answers' = <<a[1]>>
              /\ pool_members' = <<>>
              /\ selected_members' = <<>>
              /\ futures' = <<>>
              /\ created_matches' = <<>>
              /\ IF out.exc # "none"
                 THEN /\ calls' = get_user_pool_calls(u, a[1])
                      /\ pool_id' = None
                      /\ GenFinished(out)
                 ELSE /\ calls' = get_user_pool_calls(u, a[1]) \o
                            <<Call("GET", "/pools/{pool_id}/members",
                                   out.value[1].pool_id)>>
                      /\ pool_id' = out.value[1].pool_id
                      /\ gpc' = "listing"
                      /\ GenContinues

GenStart ==
    /\ op = "none"
    /\ \E u \in Users, mm \in 0..MaxMatchesBound : GenBegin(u, mm)
    /\ UNCHANGED <<invocation, upVars, addVars>>

\* The request returned and every creation call it issued succeeded.
FullSuccess ==
    /\ gpc = "done"
    /\ exc = "none"
    /\ \A i \in DOMAIN futures : futures[i].out.value[1] # NoMatch

\* The client repeats the request after a full success.
GenAgain ==
    /\ op = "generate_matches_for_user"
    /\ FullSuccess
    /\ invocation = 1
    /\ invocation' = 2
    /\ GenBegin(user, max_matches)
    /\ UNCHANGED <<upVars, addVars>>

\* Lines 191-213: the listing answer, the filter and the sample.
GenList ==
    /\ gpc = "listing"
    /\ \E st \in AnswerStatuses :
        LET resp == Answer(st, roster)
            others == other_members(resp.body, user)
        IN IF RaisesRequestException(resp)
           THEN /\ GenFinished(Raise("RuntimeError"))
                /\ UNCHANGED <<pool_members, selected_members, futures>>
           ELSE /\ pool_members' = resp.body
                /\ IF others = <<>>
                   THEN /\ GenFinished(Return(
                              [message |-> <<"No other users in the pool to match with">>,
                               pool_id |-> pool_id,
                               matches_created |-> 0,
                               matches |-> <<>>]))
                        /\ UNCHANGED <<selected_members, futures>>
                   ELSE /\ \E sel \in random_sample(others,
                                        sample_size(max_matches, Len(others))) :
                              /\ selected_members' = sel
                              /\ futures' = [i \in DOMAIN sel |-> Pending]
                        /\ gpc' = "creating"
                        /\ GenContinues
    /\ UNCHANGED <<op, user, calls, answers, max_matches, pool_id,
                   created_matches, invocation, upVars, addVars>>

InFlight == {i \in DOMAIN futures : futures[i].state = "running"}
Queued == {i \in DOMAIN futures : futures[i].state = "pending"}
FirstQueued == CHOOSE i \in Queued : \A j \in Queued : i <= j

worker_always_free(in_flight) == TRUE
\* ThreadPoolExecutor(max_workers=5): a task starts when fewer than
\* max_workers are running.
worker_free(in_flight) == Cardinality(in_flight) < max_workers

\* A free worker takes the next submitted task and issues its call.
GenWorkerStart ==
    /\ gpc = "creating"
    /\ Queued # {}
    /\ worker_free(InFlight)
    /\ futures' = [futures EXCEPT ![FirstQueued] = Running]
    /\ calls' = Append(calls,
           Call("POST", "/matches/",
                create_match_payload(pool_id, user,
                    pool_members[selected_members[FirstQueued]])))
    /\ UNCHANGED <<op, user, answers, exc, ret, http, reply, gpc, max_matches,
                   pool_id, pool_members, selected_members, created_matches,
                   invocation, upVars, addVars>>

\* A call completes: the matches service creates the match unless the pair
\* exists already, or the call fails; the main thread collects the result.
GenWorkerFinish ==
    /\ gpc = "creating"
    /\ \E i \in InFlight, st \in AnswerStatuses, shape \in MatchShapes :
        LET payload == create_match_payload(pool_id, user,
                           pool_members[selected_members[i]])
            resp == Answer(st, MatchRecord(payload, shape))
            out == create_match(resp)
        IN /\ RaisesRequestException(resp) => shape = "match"
           /\ ~RaisesRequestException(resp) => PairKey(payload) \notin matchDB
           /\ matchDB' = IF RaisesRequestException(resp) THEN matchDB
                         ELSE matchDB \cup {PairKey(payload)}
           /\ futures' = [futures EXCEPT ![i] = Done(out)]
           /\ created_matches' = collect(created_matches, out)
    /\ UNCHANGED <<op, user, calls, answers, exc, ret, http, reply, gpc,
                   max_matches, pool_id, pool_members, selected_members,
                   invocation, roster, home_pool, addVars>>

\* Every task is done: the executor is shut down, lines 242-266 run.
GenReturn ==
    /\ gpc = "creating"
    /\ \A i \in DOMAIN futures : futures[i].state = "done"
    /\ GenFinished(generate_matches_result(pool_id, user, futures, created_matches))
    /\ UNCHANGED <<op, user, calls, answers, max_matches, pool_id, pool_members,
                   selected_members, futures, created_matches, invocation,
                   upVars, addVars>>

InitGen ==
    /\ Idle
    /\ roster \in Rosters
    /\ home_pool \in PoolIds
    /\ poolsDB = <<>>

NextGen ==
    \/ GenStart
    \/ GenList
    \/ GenWorkerStart
    \/ GenWorkerFinish
    \/ GenReturn
    \/ GenAgain

SpecGen == InitGen /\ [][NextGen]_vars

\* ------------------------------------------------- timeouts of the calls
REQUEST_TIMEOUT == 5

\* The timeout a call of generate_matches_for_user_service is made with:
\* the lookup's calls (lines 28-31, 42-45) and the creation calls (line 225)
\* pass timeout=REQUEST_TIMEOUT, the member listing (lines 188-190) passes
\* none, and requests then waits for the answer without limit.
generate_call_timeout(call) ==
    IF call.path = "/pools/{pool_id}/members" THEN None ELSE REQUEST_TIMEOUT

\* The timeout of the call in flight expires: requests raises Timeout, a
\* RequestException. A call made without timeout never does this.
GenCallTimesOut ==
    IF gpc = "listing"
    THEN /\ generate_call_timeout(calls[Len(calls)]) # None
         /\ GenList
         /\ gpc' = "done" /\ exc' = "RuntimeError"
    ELSE /\ GenWorkerFinish
         /\ \E i \in InFlight :
               /\ generate_call_timeout(Call("POST", "/matches/", <<>>)) # None
               /\ futures'[i] = Done(Return(NoMatch))

NextGenLive ==
    \/ GenStart
    \/ GenList
    \/ GenWorkerStart
    \/ GenWorkerFinish
    \/ GenReturn
    \/ GenCallTimesOut

\* An upstream need not answer, so no answer step is fair; a timeout that
\* was set expires, the executor starts queued tasks, and the function runs
\* on once every task is done.
SpecGenLive ==
    /\ InitGen
    /\ [][NextGenLive]_vars
    /\ WF_vars(GenCallTimesOut)
    /\ WF_vars(GenWorkerStart)
    /\ WF_vars(GenReturn)

\* ------------------------------------------- the fan-out of line 235-240
\* The max_matches the resource passes (line 100).
resource_max_matches == 10
\* A pool with one peer more than the executor has workers.
CrowdedPool == [i \in 1..(max_workers + 2) |-> Member(i)]
FirstUser == CHOOSE u \in Users : \A v \in Users : u <= v

\* The request of the resource, by the first member of the crowded pool; the
\* pools service is up and answers the lookup with 200.
GenStartCrowded ==
    /\ op = "none"
    /\ GenBegin(FirstUser, resource_max_matches)
    /\ gpc' = "listing"
    /\ answers'[1].status = 200
    /\ UNCHANGED <<invocation, upVars, addVars>>

\* The members of the crowded pool are alike: of the orders random.sample can
\* give them, the listing order is followed.
GenListInOrder ==
    /\ GenList
    /\ \A i, j \in DOMAIN selected_members' :
          i < j => selected_members'[i] < selected_members'[j]

InitFanOut ==
    /\ Idle
    /\ roster = CrowdedPool
    /\ home_pool = FirstUser
    /\ poolsDB = <<>>

NextFanOut ==
    \/ GenStartCrowded
    \/ GenListInOrder
    \/ GenWorkerStart
    \/ GenWorkerFinish
    \/ GenReturn

SpecFanOut == InitFanOut /\ [][NextFanOut]_vars

\* --------------------------------------- get_pool_members_from_service
\* The lookup of a user who has at most one membership, in home_pool.
HomeLookupAnswers(u) ==
    LookupAnswers({<<Membership(home_pool, u, t)>> : t \in JoinedAts})

\* Lines 275-296: the lookup's exception passes through (a ValueError is
\* re-raised, a RuntimeError is not caught), then the member listing.
get_pool_members_from_service(lookup, members_resp) ==
    IF lookup.exc # "none" THEN lookup
    ELSE IF lookup.value[1].pool_id = None THEN Raise("ValueError")
    ELSE IF RaisesRequestException(members_resp) THEN Raise("RuntimeError")
    ELSE Return(members_resp.body)

\* The calls of an operation that looks the pool up and then issues one
\* more call, and the answers it receives.
calls_after_lookup(u, a, lookup, call) ==
    get_user_pool_calls(u, a[1])
    \o (IF lookup.exc = "none" /\ lookup.value[1].pool_id # None
        THEN <<call>> ELSE <<>>)
answers_after_lookup(a, lookup, resp) ==
    PoolLookupReceived(a[1], a[2])
    \o (IF lookup.exc = "none" /\ lookup.value[1].pool_id # None
        THEN <<resp>> ELSE <<>>)

get_user_pool_members_status(out) ==
    CASE out.exc = "none" -> 200
      [] out.exc = "ValueError" -> 404
      [] out.exc = "RuntimeError" -> 502
      [] OTHER -> 500

ListPoolMembers ==
    op = "none" /\ \E u \in Users, st \in AnswerStatuses :
        \E a \in HomeLookupAnswers(u) :
            LET lookup == get_user_pool_from_service(a[1], a[2])
                resp == Answer(st, IF RaisesRequestException(Answer(st, <<>>))
                                   THEN <<>> ELSE roster)
                out == get_pool_members_from_service(lookup, resp)
            IN /\ lookup.exc # "none" => st = NoResponse
               /\ op' = "get_user_pool_members"
               /\ Handled(u,
                       calls_after_lookup(u, a, lookup,
                           Call("GET", "/pools/{pool_id}/members",
                                fetched_pool_id(a[1]))),
                       answers_after_lookup(a, lookup, resp),
                       out, get_user_pool_members_status(out),
                       IF out.exc = "none"
                       THEN [user_id |-> u,
                             members_count |-> Len(out.value[1]),
                             members |-> out.value[1]]
                       ELSE <<>>)

\* --------------------------------- update_user_pool_coordinates_service
Coordinates == {None, 1}

\* The PATCH body (lines 421-425): the coordinates that are not None.
coordinates_payload(coord_x, coord_y) ==
    LET given == [coord_x |-> coord_x, coord_y |-> coord_y]
    IN [k \in {f \in {"coord_x", "coord_y"} : given[f] # None} |-> given[k]]

update_user_pool_coordinates_service(u, lookup, update_resp) ==
    IF lookup.exc # "none" THEN lookup
    ELSE IF lookup.value[1].pool_id = None THEN Raise("ValueError")
    ELSE IF ~RaisesRequestException(update_resp)
    THEN Return([pool_id |-> lookup.value[1].pool_id,
                 pool_name |-> lookup.value[1].pool_name,
                 location |-> lookup.value[1].location,
                 member_count |-> lookup.value[1].member_count,
                 joined_at |-> update_resp.body.joined_at,
                 user_id |-> Str(u)])
    ELSE IF ResponseBool(update_resp) /\ update_resp.status = 404
    THEN Raise("ValueError")
    ELSE Raise("RuntimeError")

update_user_pool_coordinates_status(out) ==
    CASE out.exc = "none" -> 200
      [] out.exc = "ValueError" -> 404
      [] out.exc = "RuntimeError" -> 502
      [] OTHER -> 500

UpdateUserPoolCoordinates ==
    op = "none" /\ \E u \in Users, st \in AnswerStatuses, x, y \in Coordinates :
        \E a \in HomeLookupAnswers(u) :
            LET lookup == get_user_pool_from_service(a[1], a[2])
                resp == Answer(st, IF RaisesRequestException(Answer(st, <<>>))
                                   THEN <<>>
                                   ELSE Membership(home_pool, u, "t1"))
                out == update_user_pool_coordinates_service(u, lookup, resp)
            IN /\ lookup.exc # "none" => st = NoResponse
               /\ op' = "update_user_pool_coordinates"
               /\ Handled(u,
                       calls_after_lookup(u, a, lookup,
                           Call("PATCH", "/pools/{pool_id}/members/{user_id}",
                                [pool_id |-> fetched_pool_id(a[1]), user_id |-> u,
                                 json |-> coordinates_payload(x, y)])),
                       answers_after_lookup(a, lookup, resp),
                       out, update_user_pool_coordinates_status(out),
                       IF out.exc = "none" THEN out.value[1] ELSE <<>>)

\* One request of an operation that starts with the membership lookup, to
\* a pool that holds every user.
InitLookup ==
    /\ Idle
    /\ roster \in Rosters
    /\ Len(roster) = NumUsers
    /\ home_pool \in PoolIds
    /\ poolsDB = <<>>

NextLookup ==
    \/ GetUserPool
    \/ ListPoolMembers
    \/ UpdateUserPoolCoordinates
    \/ GenStart
    \/ GenList
    \/ GenWorkerStart
    \/ GenWorkerFinish
    \/ GenReturn

SpecLookup == InitLookup /\ [][NextLookup]_vars

\* ---------------------------------------------- add_user_to_pool_service
\* The capacity the resource passes (20 in the source, line 76).
max_pool_size == 2

\* JSON values other than objects: a list and a string.
JsonList(items) == [list |-> items]
JsonString == [str |-> "text"]
isinstance_list(x) == DOMAIN x = {"list"}
isinstance_dict(x) == "list" \notin DOMAIN x /\ "str" \notin DOMAIN x

\* What GET /pools/?location= lists: the pools at the location, by id.
pools_at(db, loc) ==
    SelectSeq([i \in 1..Len(db) |-> PoolRecord(i, db[i].location, db[i].member_count)],
              LAMBDA p : p.location = loc)

\* p.get("member_count", 0)
get_member_count(p) == IF "member_count" \in DOMAIN p THEN p.member_count ELSE 0

not_full_or_at_capacity(pools) ==
    SelectSeq(pools, LAMBDA p : get_member_count(p) <= max_pool_size)
\* Filter out full pools (line 92).
not_full(pools) ==
    SelectSeq(pools, LAMBDA p : get_member_count(p) < max_pool_size)

needs_new_pool_always(pools) == TRUE
\* not pools or len(pools) == 0 (line 94)
needs_new_pool(pools) == pools = <<>>

\* The body of POST /pools/ (lines 96-102).
create_pool_payload(loc) == [name |-> <<"Pool for", loc>>, location |-> loc]
\* The body of POST /pools/{pool["id"]}/members (line 116).
member_payload(user_id) == [user_id |-> Str(user_id)]
add_member_call(p, user_id) ==
    Call("POST", "/pools/{pool_id}/members",
         [pool_id |-> p, payload |-> member_payload(user_id)])

add_user_to_pool_status(out) ==
    CASE out.exc = "none" -> 201
      [] out.exc = "RuntimeError" -> 502
      [] out.exc = "ValueError" -> 400
      [] OTHER -> 500

AddFinished(cur, resp, out) ==
    [cur EXCEPT !.pc = "done", !.answers = Append(@, resp), !.exc = out.exc,
                !.ret = out.value, !.http = add_user_to_pool_status(out)]

\* Lines 116-126: with the pool settled, the add-member call is issued.
AddMemberIssued(cur, resp, pools, pool) ==
    [cur EXCEPT !.pc = "adding", !.answers = Append(@, resp), !.pools = pools,
                !.pool = <<pool>>,
                !.calls = Append(@, add_member_call(pool.id, cur.user_id))]

\* A request arrives and the listing call is issued (lines 80-83).
AddStart ==
    \E r \in Requests, u \in Users, loc \in Locations :
        /\ add[r].pc = "idle"
        /\ add' = [add EXCEPT ![r] =
                     [@ EXCEPT !.pc = "listing", !.user_id = u, !.location = loc,
                               !.calls = <<Call("GET", "/pools/?location=", loc)>>]]
        /\ UNCHANGED <<reqVars, genVars, upVars, poolsDB>>

\* How the pools service can answer a call: with success (200 to a GET, 201
\* to a POST), with an error status, or not at all.
PoolsAnswerStatuses(method) ==
    {IF method = "GET" THEN 200 ELSE 201, 404, 500, NoResponse}

ListingShapes == {"list", "not a list", "non-object element"}

\* Lines 84-113: the listing answer, the filter, and the choice of an
\* eligible pool or the creation call.
AddList ==
    \E r \in Requests, st \in PoolsAnswerStatuses("GET"), shape \in ListingShapes :
        LET cur == add[r]
            listing == pools_at(poolsDB, cur.location)
            resp == Answer(st, CASE RaisesRequestException(Answer(st, <<>>)) -> <<>>
                                 [] shape = "list" -> JsonList(listing)
                                 [] shape = "not a list" -> [detail |-> "text"]
                                 [] OTHER -> JsonList(<<JsonString>>))
        IN /\ cur.pc = "listing"
           /\ RaisesRequestException(resp) => shape = "list"
           /\ UNCHANGED <<reqVars, genVars, upVars, poolsDB>>
           /\ IF RaisesRequestException(resp) \/ ~isinstance_list(resp.body)
              THEN add' = [add EXCEPT ![r] = AddFinished(cur, resp, Raise("RuntimeError"))]
              ELSE IF \E i \in DOMAIN resp.body.list : ~isinstance_dict(resp.body.list[i])
              THEN add' = [add EXCEPT ![r] = AddFinished(cur, resp, Raise("AttributeError"))]
              ELSE LET pools == not_full(resp.body.list)
                   IN IF needs_new_pool(pools)
                      THEN add' = [add EXCEPT ![r] =
                             [cur EXCEPT !.pc = "creating", !.pools = pools,
                                         !.answers = Append(@, resp),
                                         !.calls = Append(@, Call("POST", "/pools/",
                                                create_pool_payload(cur.location)))]]
                      ELSE \E i \in DOMAIN pools :
                             add' = [add EXCEPT ![r] =
                                       AddMemberIssued(cur, resp, pools, pools[i])]

CreatedShapes == {"pool", "no id", "not an object"}

\* Lines 105-110: the creation answer. The pools service gives a new pool
\* the next id.
AddCreate ==
    \E r \in Requests, st \in PoolsAnswerStatuses("POST"), shape \in CreatedShapes :
        LET cur == add[r]
            created == PoolRecord(Len(poolsDB) + 1, cur.location, 0)
            resp == Answer(st, CASE RaisesRequestException(Answer(st, <<>>)) -> <<>>
                                 [] shape = "pool" -> created
                                 [] shape = "no id" -> create_pool_payload(cur.location)
                                 [] OTHER -> JsonString)
        IN /\ cur.pc = "creating"
           /\ RaisesRequestException(resp) => shape = "pool"
           /\ UNCHANGED <<reqVars, genVars, upVars>>
           /\ IF RaisesRequestException(resp)
              THEN /\ add' = [add EXCEPT ![r] = AddFinished(cur, resp, Raise("RuntimeError"))]
                   /\ UNCHANGED poolsDB
              ELSE /\ Len(poolsDB) < NumPools
                   /\ poolsDB' = Append(poolsDB, [location |-> cur.location,
                                                  member_count |-> 0])
                   /\ IF ~isinstance_dict(resp.body)
                      THEN add' = [add EXCEPT ![r] =
                                     AddFinished(cur, resp, Raise("RuntimeError"))]
                      ELSE IF "id" \notin DOMAIN resp.body
                      \* pool["id"] raises KeyError (lines 123, 137-138)
                      THEN add' = [add EXCEPT ![r] =
                                     AddFinished(cur, resp, Raise("RuntimeError"))]
                      ELSE add' = [add EXCEPT ![r] =
                                     AddMemberIssued(cur, resp, cur.pools, resp.body)]

\* Lines 127-135: the add-member answer and the result.
AddMember ==
    \E r \in Requests, st \in PoolsAnswerStatuses("POST") :
        LET cur == add[r]
            target == cur.pool[1].id
            member == [pool_id |-> target, user_id |-> Str(cur.user_id)]
            resp == Answer(st, IF RaisesRequestException(Answer(st, <<>>))
                               THEN <<>> ELSE member)
        IN /\ cur.pc = "adding"
           /\ UNCHANGED <<reqVars, genVars, upVars>>
           /\ IF RaisesRequestException(resp)
              THEN /\ add' = [add EXCEPT ![r] = AddFinished(cur, resp, Raise("RuntimeError"))]
                   /\ UNCHANGED poolsDB
              ELSE /\ poolsDB' = [poolsDB EXCEPT ![target].member_count = @ + 1]
                   /\ add' = [add EXCEPT ![r] =
                                AddFinished(cur, resp,
                                    Return([user_id |-> cur.user_id,
                                            pool_id |-> target,
                                            location |-> cur.location,
                                            member |-> resp.body]))]

\* The pools that may exist when the requests arrive, full ones included.
PoolsStates ==
    UNION {[1..n -> {[location |-> loc, member_count |-> c] :
                        loc \in Locations, c \in 0..max_pool_size}] :
           n \in 0..NumPools}

InitAdd ==
    /\ Idle
    /\ roster = <<>>
    /\ home_pool = None
    /\ poolsDB \in PoolsStates

NextAdd ==
    \/ AddStart
    \/ AddList
    \/ AddCreate
    \/ AddMember

SpecAdd == InitAdd /\ [][NextAdd]_vars


\* ------------------------------------------------ claims: GenerateMatches
GenRequest == op = "generate_matches_for_user"
\* The match-creation calls the current invocation has issued.
CreationCalls == {i \in DOMAIN calls : calls[i].path = "/matches/"}
\* The members listed other than the requesting user.
PeerCount ==
    Cardinality({i \in DOMAIN pool_members : pool_members[i].user_id # Str(user)})
Returned == GenRequest /\ gpc = "done" /\ exc = "none"
\* The pool lookup and the member listing of the invocation were answered.
ListingAnswered ==
    /\ GenRequest /\ gpc = "done" /\ Len(calls) >= 3
    /\ ~(exc = "RuntimeError" /\ pool_members = <<>>)

\* C4: in every state of an invocation, the creation calls issued and the
\* results collected (and the matches returned) number at most
\* min(max_matches, peer_count).
C4_AtMostMinMatches ==
    GenRequest =>
        /\ Cardinality(CreationCalls) <= Min(max_matches, PeerCount)
        /\ Len(created_matches) <= Min(max_matches, PeerCount)
        /\ Returned =>
             /\ Len(ret[1].matches) <= Min(max_matches, PeerCount)
             /\ ret[1].matches_created <= Min(max_matches, PeerCount)

\* C4's case: more peers than max_matches, and max_matches matches returned.
C4_Witness ==
    /\ Returned
    /\ max_matches >= 1
    /\ PeerCount > max_matches
    /\ Len(ret[1].matches) = max_matches
    /\ Cardinality(CreationCalls) = max_matches

\* C5: no creation call carries the requesting user as user2_id, every
\* selected position is a peer's, and no position is selected twice; each
\* selected position gets at most one call.
C5_NeverSelfNoRepeat ==
    GenRequest =>
        /\ \A i \in CreationCalls :
             /\ calls[i].arg.user2_id # Str(user)
             /\ calls[i].arg.user1_id = Str(user)
        /\ \A i \in DOMAIN selected_members :
             /\ selected_members[i] \in DOMAIN pool_members
             /\ pool_members[selected_members[i]].user_id # Str(user)
        /\ \A i, j \in DOMAIN selected_members :
             i # j => selected_members[i] # selected_members[j]
        /\ \A i, j \in CreationCalls :
             i # j => calls[i].arg.user2_id # calls[j].arg.user2_id

\* C5's case: the listing holds the requesting user, and two peers get calls.
C5_Witness ==
    /\ GenRequest /\ gpc = "done"
    /\ \E i \in DOMAIN pool_members : pool_members[i].user_id = Str(user)
    /\ Cardinality(CreationCalls) >= 2

\* C6 as claimed: a repeated GenerateMatches after a full success, its pool
\* lookup and listing answered, returns matches_created = 0 without error,
\* whatever the pool size.
C6_Idempotent ==
    (invocation = 2 /\ ListingAnswered)
        => (exc = "none" /\ ret[1].matches_created = 0)

\* C6 amended: the same, for a pool with at most max_matches peers whose
\* membership is unchanged between the two invocations; and no creation
\* call of the repeated invocation creates a match.
C6_IdempotentSmallPool ==
    (invocation = 2 /\ GenRequest /\ PeerCount <= max_matches)
        => /\ created_matches = <<>>
           /\ ListingAnswered => (exc = "none" /\ ret[1].matches_created = 0)

\* C6's case: the repeated invocation issued a call per peer, none created.
C6_Witness ==
    /\ invocation = 2 /\ ListingAnswered
    /\ PeerCount >= 2 /\ PeerCount <= max_matches
    /\ Cardinality(CreationCalls) = PeerCount
    /\ exc = "none" /\ ret[1].matches_created = 0

\* The matches a record list stands for, by the matches service's key.
KeysOf(records) ==
    {<<records[i].pool_id, {records[i].user1_id, records[i].user2_id}>> :
        i \in DOMAIN records}

\* C7: whichever creation calls fail, an invocation that returns after its
\* creation phase (the created records validating as MatchGet) succeeds, the
\* matches returned are exactly the records the matches service created for
\* it, and matches_created is their number.
C7_PartialFailure ==
    (GenRequest /\ gpc = "done" /\ selected_members # <<>>
        /\ \A i \in DOMAIN created_matches : MatchGetValidates(created_matches[i]))
        => /\ exc = "none" /\ http = 201
           /\ ret[1].matches_created = Len(ret[1].matches)
           /\ Len(ret[1].matches) =
                Cardinality({i \in DOMAIN futures : futures[i].out.value # <<NoMatch>>})
           /\ invocation = 1 =>
                /\ KeysOf(ret[1].matches) = matchDB
                /\ Len(ret[1].matches) = Cardinality(matchDB)

\* C7's case: one call failed, another succeeded, and the request returned
\* the one match.
C7_Witness ==
    /\ Returned /\ invocation = 1
    /\ \E i \in DOMAIN futures : futures[i].out.value = <<NoMatch>>
    /\ ret[1].matches_created = 1
    /\ Cardinality(matchDB) = 1
    /\ Len(selected_members) >= 2

\* ------------------------------------------------------------------ claims
\* C1: whenever the matches service answers the decision-creation call with
\* 403, SubmitDecision raises PermissionError and the client receives 403.
C1_Forbidden ==
    (op = "submit_user_match_decision" /\ answers[1].status = 403)
        => (exc = "PermissionError" /\ http = 403)

\* C2: whenever the matches service answers the user-filtered listing with
\* 404, ListUserMatches returns an empty list and the client sees 200 with
\* matches_count = 0.
C2_NotFoundIsEmpty ==
    (op = "get_user_matches" /\ answers[1].status = 404)
        => (/\ exc = "none" /\ ret = << <<>> >> /\ http = 200
            /\ reply # <<>> /\ reply[1].matches_count = 0)

\* C3: whenever the pools service answers DELETE /pools/members/{user_id}
\* with 404, RemoveUserFromPool raises ValueError and the client receives
\* 404, not 502.
C3_NotMember ==
    (op = "remove_user_from_pool" /\ answers[1].status = 404)
        => (exc = "ValueError" /\ http = 404)

\* C10: whenever the membership lookup lists at least one membership and
\* GetUserPool returns, the returned pool_id is the pool_id of the first
\* membership listed, and the one pool fetch issued is for that pool_id.
C10_PoolOfMembership ==
    (op = "get_user_pool" /\ exc = "none")
        => (/\ answers[1].body # <<>>
            /\ ret[1].pool_id = answers[1].body[1].pool_id
            /\ Len(calls) = 2
            /\ calls[2] = Call("GET", "/pools/{pool_id}", answers[1].body[1].pool_id))

\* C10 also: a non-empty membership listing always leads to exactly one pool
\* fetch, for the first membership's pool.
C10_Witness ==
    /\ op = "get_user_pool" /\ exc = "none"
    /\ Len(answers[1].body) = 2
    /\ answers[1].body[1].pool_id # answers[1].body[2].pool_id
    /\ ret[1].pool_id = answers[1].body[1].pool_id

\* -------------------------------------------------- claims: AddUserToPool
\* The request has received the listing, as a list of pool objects.
ListingUsable(r) ==
    /\ add[r].answers # <<>>
    /\ ~RaisesRequestException(add[r].answers[1])
    /\ isinstance_list(add[r].answers[1].body)
    /\ \A i \in DOMAIN add[r].answers[1].body.list :
           isinstance_dict(add[r].answers[1].body.list[i])
Listed(r) == Range(add[r].answers[1].body.list)
AddMemberCalls(r) ==
    {i \in DOMAIN add[r].calls : add[r].calls[i].path = "/pools/{pool_id}/members"}
PoolCreationCalls(r) ==
    {i \in DOMAIN add[r].calls : add[r].calls[i].path = "/pools/"}
\* The creation call was answered with a pool object that has an id.
PoolCreated(r) ==
    /\ PoolCreationCalls(r) = {2}
    /\ Len(add[r].answers) >= 2
    /\ ~RaisesRequestException(add[r].answers[2])
    /\ isinstance_dict(add[r].answers[2].body)
    /\ "id" \in DOMAIN add[r].answers[2].body

\* C8: every add-member call a request issues targets either a pool of the
\* listing it received whose listed member_count is below max_pool_size, or
\* the pool this request has just created; never a listed pool whose
\* member_count is max_pool_size or more.
C8_NeverAddsToFullPool ==
    \A r \in Requests : \A i \in AddMemberCalls(r) :
        LET target == add[r].calls[i].arg.pool_id
            listed == {p \in Listed(r) : p.id = target}
        IN /\ \A p \in listed : p.member_count < max_pool_size
           /\ \/ listed # {}
              \/ PoolCreated(r) /\ i = 3 /\ add[r].answers[2].body.id = target

\* C8 happens: the listing held a full pool and one with room, and the user
\* was added to the one with room.
C8_Witness ==
    \E r \in Requests :
        /\ add[r].pc = "done" /\ add[r].exc = "none"
        /\ \E p, q \in Listed(r) :
              /\ p.member_count >= max_pool_size
              /\ q.member_count < max_pool_size
              /\ add[r].ret[1].pool_id = q.id
              /\ AddMemberCalls(r) = {2}

NoEligiblePool(r) == \A p \in Listed(r) : p.member_count >= max_pool_size

\* C9: a request whose listing holds no pool below max_pool_size (none at
\* all, or full ones only) issues exactly one creation call, named
\* "Pool for <location>", and adds the user to the pool that call created
\* and to no other; a request whose listing holds an eligible pool issues
\* no creation call.
C9_CreatesOnlyWhenNoneEligible ==
    \A r \in Requests : ListingUsable(r) =>
        IF NoEligiblePool(r)
        THEN /\ PoolCreationCalls(r) = {2}
             /\ add[r].calls[2] =
                  Call("POST", "/pools/",
                       [name |-> <<"Pool for", add[r].location>>,
                        location |-> add[r].location])
             /\ \A i \in AddMemberCalls(r) :
                    /\ PoolCreated(r) /\ i = 3
                    /\ add[r].calls[i].arg.pool_id = add[r].answers[2].body.id
                    /\ \A p \in Listed(r) : p.id # add[r].answers[2].body.id
             /\ PoolCreated(r) => AddMemberCalls(r) = {3}
        ELSE PoolCreationCalls(r) = {}

\* C9 happens: every listed pool was full, a pool was created and the user
\* was added to it.
C9_Witness ==
    \E r \in Requests :
        /\ add[r].pc = "done" /\ add[r].exc = "none"
        /\ ListingUsable(r) /\ Listed(r) # {} /\ NoEligiblePool(r)
        /\ Len(add[r].calls) = 3
        /\ add[r].ret[1].pool_id = add[r].answers[2].body.id

\* -------------------------------------------- claims: membership lookup
LookupOperations ==
    {"get_user_pool", "get_user_pool_members", "update_user_pool_coordinates",
     "generate_matches_for_user"}
\* The membership lookup was answered with an empty list.
LookupEmpty ==
    /\ answers # <<>>
    /\ ~RaisesRequestException(answers[1])
    /\ answers[1].body = <<>>

\* C11: in GetUserPool, ListPoolMembers, UpdateUserPoolCoordinates and
\* GenerateMatches, when the membership lookup returns an empty list the
\* operation raises ValueError, the client receives 404, and the lookup is
\* the only upstream call issued.
C11_MissingMembershipFailsFast ==
    (op \in LookupOperations /\ LookupEmpty)
        => /\ exc = "ValueError" /\ http = 404
           /\ calls = <<Call("GET", "/pools/members?user_id=", user)>>
           /\ op = "generate_matches_for_user"
                => (gpc = "done" /\ futures = <<>> /\ matchDB = {})

\* C11 happens: GenerateMatches for a user without membership.
C11_Witness ==
    /\ op = "generate_matches_for_user" /\ LookupEmpty
    /\ http = 404 /\ Len(calls) = 1

\* ------------------------------------------- claims: ListUserDecisions
\* The matches listed that have a match_id, in listing order.
MatchesWithId == SelectSeq(answers[1].body, LAMBDA m : m.match_id # None)
\* The answers to the decision fetches that came with status 200.
FetchesReturned200 ==
    SelectSeq(SubSeq(answers, 2, Len(answers)), LAMBDA a : a.status = 200)

\* C12: once the match listing has succeeded, ListUserDecisions returns
\* (200) whatever the decision fetches do; every match with a match_id gets
\* exactly one fetch, in listing order, and the result is exactly the
\* decisions of the fetches answered 200, in that order.
C12_DecisionFetchTolerance ==
    (op = "get_user_decisions" /\ ~RaisesRequestException(answers[1]))
        => /\ exc = "none" /\ http = 200
           /\ Len(calls) = 1 + Len(MatchesWithId)
           /\ Len(answers) = Len(calls)
           /\ \A k \in 1..Len(MatchesWithId) :
                 calls[k + 1] = Call("GET", "/matches/{match_id}/decisions/{user_id}",
                                     [match_id |-> MatchesWithId[k].match_id,
                                      user_id |-> user])
           /\ ret[1] = [k \in 1..Len(FetchesReturned200) |-> FetchesReturned200[k].body]
           /\ reply[1].decisions_count = Len(FetchesReturned200)

\* C12 happens: of two decision fetches the first fails, the second is
\* answered 200 and is the one decision returned.
C12_Witness ==
    /\ op = "get_user_decisions" /\ http = 200
    /\ Len(answers) = 3
    /\ RaisesRequestException(answers[2])
    /\ answers[3].status = 200
    /\ ret[1] = <<answers[3].body>>

\* C13: whenever the matches service answers the decision-creation call with
\* 400, SubmitDecision raises ValueError and the client receives 400; and
\* whenever it answers 404, SubmitDecision raises ValueError and the client
\* receives 404.
C13_InvalidAndNotFound ==
    op = "submit_user_match_decision"
        => /\ answers[1].status = 400 => (exc = "ValueError" /\ http = 400)
           /\ answers[1].status = 404 => (exc = "ValueError" /\ http = 404)

\* C14: every AddUserToPool request that an upstream failure (no answer or
\* an error status on any of its calls) or a malformed upstream payload
\* ends, ends with RuntimeError and HTTP 502 to the client.
C14_FailuresAreUnavailable ==
    \A r \in Requests :
        /\ (\E i \in DOMAIN add[r].answers :
               RaisesRequestException(add[r].answers[i]))
              => (add[r].pc = "done" /\ add[r].exc = "RuntimeError"
                  /\ add[r].http = 502)
        /\ (add[r].pc = "done" /\ add[r].exc # "none")
              => (add[r].exc = "RuntimeError" /\ add[r].http = 502)

\* ------------------------------------------------------ claims: fan-out
\* The creation calls issued for the selected member at position i.
CallsFor(i) ==
    {k \in DOMAIN calls :
        /\ calls[k].path = "/matches/"
        /\ calls[k].arg.user2_id = pool_members[selected_members[i]].user_id}

\* C15: in every state of a GenerateMatches invocation at most max_workers
\* (5) creation calls are in flight; a selected peer has one creation call
\* once its task has started and none before, however the call ended; and
\* the operation has returned only if every submitted task is done.
C15_BoundedFanOut ==
    GenRequest =>
        /\ Cardinality(InFlight) <= 5
        /\ \A i \in DOMAIN futures :
              Cardinality(CallsFor(i)) = IF futures[i].state = "pending" THEN 0 ELSE 1
        /\ Cardinality(CreationCalls) = Cardinality(DOMAIN futures \ Queued)
        /\ gpc = "done" => \A i \in DOMAIN futures : futures[i].state = "done"

\* C15 happens: more tasks than workers were submitted, five calls are in
\* flight and the sixth task waits.
C15_Witness ==
    /\ GenRequest /\ gpc = "creating"
    /\ Len(selected_members) = 6
    /\ Cardinality(InFlight) = 5
    /\ Queued # {}

\* ----------------------------------------------------- claims: timeouts
\* C16: every call is bounded by its timeout, so a GenerateMatches request
\* in progress eventually completes, with a result or an error, even when
\* an upstream never answers; the member listing call included.
C16_EveryRequestCompletes ==
    (GenRequest /\ gpc # "done") ~> (gpc = "done")

\* ------------------------------------------ claims: GenerateMatches 404
\* C17: the client of GenerateMatches receives 404 only if the membership
\* lookup listed no membership; every other failure gives 502 or 500.
C17_NotFoundOnlyWithoutMembership ==
    (GenRequest /\ http = 404) => LookupEmpty

\* ------------------------------------- claims: concurrent AddUserToPool
\* C18: under every interleaving of AddUserToPool requests the add-member
\* calls never take a pool's membership above max_pool_size.
C18_NeverAboveCapacity ==
    \A p \in DOMAIN poolsDB : poolsDB[p].member_count <= max_pool_size

====
